---- MODULE Spec2Model ----
(***************************************************************************)
(* A model of src/services/ml/predict.py: the PricePredictor class         *)
(* (prepare_features, fetch_historical_data, train, predict) and the       *)
(* command-line entry point.                                               *)
(*                                                                         *)
(* Floating point values that the program computes with are fixed-point    *)
(* integers with two decimals (Scale); the values of the derived columns   *)
(* of the feature table are tagged fractions, so that NaN, infinity and a  *)
(* number are told apart the way pandas' dropna tells them apart.          *)
(***************************************************************************)
EXTENDS Integers, Sequences, FiniteSets, TLC

\* ------------------------------------------------------------------ bounds
\* Longest raw time series a provider response or a caller's table holds.
MaxRows == 22
\* The sampled perturbation ranges over -MaxSample..MaxSample standard deviations.
MaxSample == 1
\* Calls a library user makes on one PricePredictor.
MaxCalls == 2
\* Most positional arguments on the command line.
MaxArgs == 3

\* --------------------------------------------------------- program constants
\* rolling(window=5) of SMA_5, predict.py line 23
SMA_5_window == 5
\* rolling(window=20) of SMA_20, predict.py line 24
SMA_20_window == 20
\* rolling(window=5) of volatility, predict.py line 33
volatility_window == 5

\* Fixed point: a float x is the integer x * Scale.
Scale == 10 ^ 2

\* ------------------------------------------------------------ value helpers
\* The value of a derived column: not-a-number, an infinity, a fraction
\* num/den, or the square root of a fraction (a standard deviation).
NaN == [kind |-> "nan", num |-> 0, den |-> 1]
Inf == [kind |-> "inf", num |-> 1, den |-> 0]
Frac(n, d) == [kind |-> "num", num |-> n, den |-> d]
SqrtFrac(n, d) == [kind |-> "sqrt", num |-> n, den |-> d]

\* pandas isna: only not-a-number is missing, an infinity is a value.
isna(v) == v.kind = "nan"

RECURSIVE SumRange(_, _, _)
\* The sum of s[lo..hi].
SumRange(s, lo, hi) == IF lo > hi THEN 0 ELSE s[hi] + SumRange(s, lo, hi - 1)

\* ------------------------------------------------------------- raw tables
\* The ordered list of base feature names of PricePredictor.__init__.
features == <<"open", "high", "low", "close", "volume">>

\* Row i (1-based, keyed by its timestamp ts) of a raw table whose volume is
\* zero in the two periods quiet and quiet + 1 (quiet = 0: never zero).
\* Prices are positive and rising.
RawRow(i, quiet) ==
    [ts |-> i, open |-> 99 + i, high |-> 102 + i, low |-> 98 + i,
     close |-> 100 + i,
     volume |-> IF quiet > 0 /\ i \in {quiet, quiet + 1} THEN 0 ELSE 1000 + i]

\* A raw time-series table of n rows.
RawTable(n, quiet) == [i \in 1..n |-> RawRow(i, quiet)]

\* Every raw table a caller may hand to prepare_features.
RawTables == {RawTable(n, q) : n \in 0..MaxRows, q \in 0..MaxRows}

\* ------------------------------------------------------- prepare_features
\* A rolling mean with min_periods=1: defined from the first row on.
rolling_mean_min_periods(col, w, i) ==
    IF i < w THEN Frac(SumRange(col, 1, i), i) ELSE Frac(SumRange(col, i - w + 1, i), w)

\* Series.rolling(window=w).mean() at row i: undefined until w rows exist.
rolling_mean(col, w, i) ==
    IF i < w THEN NaN ELSE Frac(SumRange(col, i - w + 1, i), w)

\* Series.rolling(window=w).std() at row i (sample standard deviation):
\* sqrt((w * sum(x^2) - sum(x)^2) / (w * (w - 1))).
rolling_std(col, w, i) ==
    IF i < w THEN NaN
    ELSE LET sq == [k \in 1..Len(col) |-> col[k] * col[k]]
             s1 == SumRange(col, i - w + 1, i)
             s2 == SumRange(sq, i - w + 1, i)
         IN SqrtFrac(w * s2 - s1 * s1, w * (w - 1))

\* Series.pct_change() at row i: col[i] / col[i-1] - 1; the first row has no
\* predecessor, 0/0 is not-a-number and x/0 is an infinity.
pct_change(col, i) ==
    IF i = 1 THEN NaN
    ELSE IF col[i - 1] = 0
         THEN (IF col[i] = 0 THEN NaN ELSE Inf)
         ELSE Frac(col[i] - col[i - 1], col[i - 1])

\* The five derived columns added to row i of df (lines 23-33).
WithIndicators(df, i) ==
    LET close == [k \in 1..Len(df) |-> df[k].close]
        volume == [k \in 1..Len(df) |-> df[k].volume]
        r == df[i]
    IN [ts |-> r.ts, open |-> r.open, high |-> r.high, low |-> r.low,
        close |-> r.close, volume |-> r.volume,
        SMA_5 |-> rolling_mean(close, SMA_5_window, i),
        SMA_20 |-> rolling_mean(close, SMA_20_window, i),
        price_momentum |-> pct_change(close, i),
        volume_momentum |-> pct_change(volume, i),
        volatility |-> rolling_std(close, volatility_window, i)]

\* Whether a row of the feature table holds a not-a-number in any column.
HasNaN(r) ==
    \/ isna(r.SMA_5) \/ isna(r.SMA_20) \/ isna(r.price_momentum)
    \/ isna(r.volume_momentum) \/ isna(r.volatility)

\* dropna(how='all'): only the rows whose every derived value is missing go.
dropna_how_all(rows) ==
    SelectSeq(rows, LAMBDA r : ~(/\ r.SMA_5.kind = "nan" /\ r.SMA_20.kind = "nan"
                                 /\ r.price_momentum.kind = "nan"
                                 /\ r.volume_momentum.kind = "nan"
                                 /\ r.volatility.kind = "nan"))

\* DataFrame.dropna(): the rows without a not-a-number, in their order.
dropna(rows) == SelectSeq(rows, LAMBDA r : ~HasNaN(r))

\* PricePredictor.prepare_features (lines 20-38).
prepare_features(df) == dropna([i \in 1..Len(df) |-> WithIndicators(df, i)])

\* ------------------------------------------------------------------ state
VARIABLES
    name,       \* "__main__": run as a script; "import": used as a library
    argv,       \* the positional command-line arguments, sys.argv[1:]
    pc,         \* where the process is
    exit_code,  \* the code given to sys.exit, -1 while the process runs
    scaler,     \* self.scaler, the StandardScaler
    model,      \* self.model, the LinearRegression
    stdout,     \* the lines printed so far
    requests,   \* the symbols of the HTTP GETs issued so far
    clock,      \* the instant datetime.now() returns next
    log,        \* the calls made on the predictor so far, with their outcome
    df,         \* train's (or the caller's) raw table
    feat,       \* the table prepare_features returned
    X,          \* train's feature matrix, as handed to the scaler
    y           \* train's labels

vars == <<name, argv, pc, exit_code, scaler, model, stdout, requests, clock,
          log, df, feat, X, y>>

\* The instrument symbols used as inputs.
Symbols == {"AAPL", "MSFT"}

RECURSIVE SeqsUpTo(_, _)
\* The sequences over S of length at most n.
SeqsUpTo(S, n) ==
    IF n = 0 THEN {<<>>}
    ELSE LET shorter == SeqsUpTo(S, n - 1)
         IN shorter \cup {Append(s, x) : s \in {t \in shorter : Len(t) = n - 1}, x \in S}

\* The command lines: up to MaxArgs positional arguments.
Argvs == SeqsUpTo(Symbols, MaxArgs)

\* ---------------------------------------------------------------- predict
\* Fixed-point product and quotient.
FMul(a, b) == (a * b) \div Scale
FDiv(a, b) == (a * Scale) \div b

\* current_price = 100.0 (line 80).
current_price == 100 * Scale
\* The mock confidence score 0.75 (line 87).
confidence_score == (75 * Scale) \div 100
\* The standard deviation 0.02 of np.random.normal (line 81).
sigma == (2 * Scale) \div 100

\* The values np.random.normal(0, 0.02) may return: whole standard deviations.
Samples == {k * sigma : k \in -MaxSample..MaxSample}

\* Where a statement of predict's try block may raise: nowhere, while
\* sampling (line 81), or while serialising the result (line 92, before
\* anything is printed). The exception's string form is the fault's name.
Faults == {"none", "normal", "dumps"}

\* The percent change taken relative to the predicted price.
PredictionResult_relative_to_prediction(sample, now) ==
    LET prediction == FMul(current_price, Scale + sample)
    IN [current_price |-> current_price,
        predicted_price |-> prediction,
        predicted_change_percent |->
            FMul(FDiv(prediction - current_price, prediction), 100 * Scale),
        confidence_score |-> confidence_score,
        timestamp |-> now]

\* The record printed on success (lines 83-89), read at instant now.
PredictionResult(sample, now) ==
    LET prediction == FMul(current_price, Scale + sample)
    IN [current_price |-> current_price,
        predicted_price |-> prediction,
        predicted_change_percent |->
            FMul(FDiv(prediction - current_price, current_price), 100 * Scale),
        confidence_score |-> confidence_score,
        timestamp |-> now]

\* The record printed by an except handler or the usage check.
ErrorRecord(msg, now) == [error |-> msg, timestamp |-> now]

\* The clock reads predict makes: line 88 is reached unless sampling raised,
\* line 98 only in the handler.
ClockReads(fault) ==
    CASE fault = "none" -> 1
      [] fault = "normal" -> 1
      [] fault = "dumps" -> 2

\* An except handler that prints the error and still returns True.
predict_handler_returns_true(symbol, sample, fault, now) ==
    IF fault = "none"
    THEN [line |-> PredictionResult(sample, now), ret |-> TRUE,
          clock |-> now + ClockReads(fault)]
    ELSE [line |-> ErrorRecord(fault, now + ClockReads(fault) - 1), ret |-> TRUE,
          clock |-> now + ClockReads(fault)]

\* A predict wired to the model: once fitted, the model's estimate (here the
\* current price) replaces the random one.
predict_uses_model(symbol, sample, fault, now) ==
    IF fault = "none"
    THEN [line |-> PredictionResult(IF model.fitted THEN 0 ELSE sample, now),
          ret |-> TRUE, clock |-> now + ClockReads(fault)]
    ELSE [line |-> ErrorRecord(fault, now + ClockReads(fault) - 1), ret |-> FALSE,
          clock |-> now + ClockReads(fault)]

\* PricePredictor.predict (lines 77-100): the line it prints, the boolean it
\* returns and the instant after it. The symbol, self.model and self.scaler
\* are not read.
predict(symbol, sample, fault, now) ==
    IF fault = "none"
    THEN [line |-> PredictionResult(sample, now), ret |-> TRUE,
          clock |-> now + ClockReads(fault)]
    ELSE [line |-> ErrorRecord(fault, now + ClockReads(fault) - 1), ret |-> FALSE,
          clock |-> now + ClockReads(fault)]

\* ------------------------------------------------------------------ fetch
\* The message of the exception line 49 raises: the DataUnavailable error.
DataUnavailable == "Failed to fetch data from Alpha Vantage"
\* pandas' ValueError at line 53 when the series is empty: a frame built
\* from an empty dict has no columns to rename.
LengthMismatch == "Length mismatch: Expected axis has 0 elements, new values have 5 elements"
\* scikit-learn's ValueError when an estimator is fitted on no sample.
NoSamples == "Found array with 0 sample(s) while a minimum of 1 is required"

\* A provider response: a JSON object with or without "Time Series (5min)".
NoKeyResponse == [has_key |-> FALSE, series |-> <<>>]
SeriesResponse(t) == [has_key |-> TRUE, series |-> t]

\* The responses train is run on: no key, an empty series, and series around
\* the 20-row warm-up, without and with two zero-volume periods after it.
\* (Shorter series lose every row, as the 19-row one does.)
Responses ==
    {NoKeyResponse}
    \cup {SeriesResponse(RawTable(n, q)) :
            n \in {0} \cup ((SMA_20_window - 1)..MaxRows), q \in {0, SMA_20_window}}

\* A fetch without the check of line 48: a response without the key is
\* taken for an empty series.
fetch_without_key_check(response) ==
    IF Len(response.series) = 0 THEN [err |-> LengthMismatch, df |-> <<>>]
    ELSE [err |-> "none", df |-> response.series]

\* PricePredictor.fetch_historical_data (lines 40-56), after its one GET.
fetch_historical_data(response) ==
    IF ~response.has_key THEN [err |-> DataUnavailable, df |-> <<>>]
    ELSE IF Len(response.series) = 0 THEN [err |-> LengthMismatch, df |-> <<>>]
    ELSE [err |-> "none", df |-> response.series]

\* ------------------------------------------------------------------ train
\* A StandardScaler or LinearRegression that was never fitted.
Unfitted == [fitted |-> FALSE, fit_call |-> 0, scaler_call |-> 0]

\* df[self.features].values: one vector of the five base values per row.
FeatureMatrix(t) ==
    [i \in 1..Len(t) |-> <<t[i].open, t[i].high, t[i].low, t[i].close, t[i].volume>>]

\* a[:-1]: all but the last element (nothing of an empty array).
AllButLast(a) == SubSeq(a, 1, Len(a) - 1)

\* X = df[self.features].values; X = X[:-1] (lines 67, 69).
TrainingX(t) == AllButLast(FeatureMatrix(t))

\* Labels without the shift: each row's own close.
TrainingY_without_shift(t) == AllButLast([i \in 1..Len(t) |-> t[i].close])

\* y = df['close'].shift(-1).values[:-1] (line 68): each row's next close,
\* not-a-number for the last row, which [:-1] removes.
TrainingY(t) ==
    AllButLast([i \in 1..Len(t) |-> IF i < Len(t) THEN t[i + 1].close ELSE NaN])

\* self.scaler after fit_transform raised (line 72): StandardScaler.fit
\* resets the estimator before it validates the data, so the parameters of
\* an earlier fit are gone.
ScalerAfterFailedFit(old) == Unfitted

\* self.scaler.fit_transform(X) (line 72) in train call number call.
fit_transform(old, x, call) ==
    IF Len(x) = 0
    THEN [err |-> NoSamples, scaler |-> ScalerAfterFailedFit(old)]
    ELSE [err |-> "none",
          scaler |-> [fitted |-> TRUE, fit_call |-> call, scaler_call |-> call]]

\* self.model.fit(X, y) (line 75) on features scaled by scaler sc: ordinary
\* least squares accepts any number of samples >= 1, and X has that many
\* whenever the scaler accepted it.
model_fit(old, x, labels, sc, call) ==
    IF Len(x) = 0 THEN [err |-> NoSamples, model |-> old]
    ELSE [err |-> "none",
          model |-> [fitted |-> TRUE, fit_call |-> call, scaler_call |-> sc.fit_call]]

\* PricePredictor.train (lines 58-75) on the provider's response: the error
\* it lets propagate ("none" when it returns), its locals and the predictor's
\* state after it.
train(response, sc, md, call) ==
    LET fetched == fetch_historical_data(response)
        t == prepare_features(fetched.df)
        x == TrainingX(t)
        labels == TrainingY(t)
        scaled == fit_transform(sc, x, call)
        fitted == model_fit(md, x, labels, scaled.scaler, call)
    IN IF fetched.err # "none"
       THEN [err |-> fetched.err, df |-> <<>>, feat |-> <<>>, X |-> <<>>, y |-> <<>>,
             scaler |-> sc, model |-> md]
       ELSE IF scaled.err # "none"
       THEN [err |-> scaled.err, df |-> fetched.df, feat |-> t, X |-> x, y |-> labels,
             scaler |-> scaled.scaler, model |-> md]
       ELSE [err |-> fitted.err, df |-> fetched.df, feat |-> t, X |-> x, y |-> labels,
             scaler |-> scaled.scaler, model |-> fitted.model]

\* ---------------------------------------------------------------- actions
\* The usage text of line 105.
Usage == "Usage: python predict.py <symbol>"

\* A check for the missing argument only: len(sys.argv) < 2.
BadArgs_missing_only(args) == Len(args) < 1

\* len(sys.argv) != 2 (line 103): not exactly one positional argument.
BadArgs(args) == Len(args) # 1

Init ==
    /\ name \in {"__main__", "import"}
    /\ argv \in (IF name = "__main__" THEN Argvs ELSE {<<>>})
    /\ pc = "start"
    /\ exit_code = -1
    /\ scaler = Unfitted
    /\ model = Unfitted
    /\ stdout = <<>>
    /\ requests = <<>>
    /\ clock = 0
    /\ log = <<>>
    /\ df = <<>>
    /\ feat = <<>>
    /\ X = <<>>
    /\ y = <<>>

\* Lines 103-108: the usage error.
MainUsage ==
    /\ name = "__main__"
    /\ pc = "start"
    /\ BadArgs(argv)
    /\ stdout' = Append(stdout, ErrorRecord(Usage, clock))
    /\ clock' = clock + 1
    /\ exit_code' = 1
    /\ pc' = "exited"
    /\ UNCHANGED <<name, argv, scaler, model, requests, log, df, feat, X, y>>

\* PricePredictor() (lines 15-18): by line 111 of the script, or by a caller
\* that imported the module.
Construct ==
    /\ pc = "start"
    /\ name = "__main__" => ~BadArgs(argv)
    /\ scaler' = Unfitted
    /\ model' = Unfitted
    /\ pc' = "constructed"
    /\ UNCHANGED <<name, argv, exit_code, stdout, requests, clock, log, df, feat, X, y>>

\* The effect of one call of predict on the state.
PredictCall(symbol, sample, fault) ==
    LET r == predict(symbol, sample, fault, clock)
    IN /\ stdout' = Append(stdout, r.line)
       /\ clock' = r.clock
       /\ log' = Append(log, [op |-> "predict", symbol |-> symbol, sample |-> sample,
                              fault |-> fault, now |-> clock, ret |-> r.ret])
       /\ UNCHANGED <<name, argv, exit_code, scaler, model, requests, df, feat, X, y>>

\* Line 112: the script calls predict on its one argument.
MainPredict ==
    /\ name = "__main__"
    /\ pc = "constructed"
    /\ \E sample \in Samples, fault \in Faults :
           PredictCall(argv[1], sample, fault)
    /\ pc' = "predicted"

\* Line 113: sys.exit(0 if success else 1).
MainExit ==
    /\ name = "__main__"
    /\ pc = "predicted"
    /\ exit_code' = IF log[Len(log)].ret THEN 0 ELSE 1
    /\ pc' = "exited"
    /\ UNCHANGED <<name, argv, scaler, model, stdout, requests, clock, log, df, feat, X, y>>

\* A library caller calls predict.
Predict ==
    /\ name = "import"
    /\ pc = "constructed"
    /\ Len(log) < MaxCalls
    /\ \E symbol \in Symbols, sample \in Samples, fault \in Faults :
           PredictCall(symbol, sample, fault)
    /\ pc' = pc

\* A library caller calls train; the provider answers with some response.
Train ==
    /\ name = "import"
    /\ pc = "constructed"
    /\ Len(log) < MaxCalls
    /\ \E symbol \in Symbols, response \in Responses :
           \E r \in {train(response, scaler, model, Len(log) + 1)} :
              /\ requests' = Append(requests, symbol)
              /\ scaler' = r.scaler
              /\ model' = r.model
              /\ df' = r.df
              /\ feat' = r.feat
              /\ X' = r.X
              /\ y' = r.y
              /\ log' = Append(log, [op |-> "train", symbol |-> symbol,
                                     has_key |-> response.has_key, err |-> r.err])
    /\ UNCHANGED <<name, argv, pc, exit_code, stdout, clock>>

Next == MainUsage \/ Construct \/ MainPredict \/ MainExit \/ Predict \/ Train

Spec == Init /\ [][Next]_vars

\* ------------------------------------------ prepare_features on its own
\* A caller hands some raw table to prepare_features.
InitFeatures ==
    /\ name = "import"
    /\ argv = <<>>
    /\ pc = "prepare"
    /\ exit_code = -1
    /\ scaler = Unfitted
    /\ model = Unfitted
    /\ stdout = <<>>
    /\ requests = <<>>
    /\ clock = 0
    /\ log = <<>>
    /\ df \in RawTables
    /\ feat = <<>>
    /\ X = <<>>
    /\ y = <<>>

\* The call returns the feature table; nothing in it raises.
PrepareFeatures ==
    /\ pc = "prepare"
    /\ feat' = prepare_features(df)
    /\ log' = Append(log, [op |-> "prepare_features", err |-> "none"])
    /\ pc' = "prepared"
    /\ UNCHANGED <<name, argv, exit_code, scaler, model, stdout, requests, clock, df, X, y>>

SpecFeatures == InitFeatures /\ [][PrepareFeatures]_vars

\* ----------------------------------------------------------------- claims
\* The last call recorded in the log.
Last == log[Len(log)]
\* Whether a printed line is an error record (error and timestamp).
IsErrorRecord(l) == DOMAIN l = {"error", "timestamp"}
\* Whether a printed line is a success record.
IsSuccessRecord(l) ==
    DOMAIN l = {"current_price", "predicted_price", "predicted_change_percent",
                "confidence_score", "timestamp"}

\* C1: a command line whose positional-argument count is not exactly one
\* prints one JSON error object holding the usage text and a timestamp, exits
\* with code 1, and never constructs a predictor or calls predict.
C1_UsageError ==
    (name = "__main__" /\ Len(argv) # 1) =>
        /\ pc \in {"start", "exited"}
        /\ log = <<>>
        /\ requests = <<>>
        /\ pc = "start" => (stdout = <<>> /\ exit_code = -1 /\ ENABLED MainUsage)
        /\ pc = "exited" =>
            /\ Len(stdout) = 1
            /\ IsErrorRecord(stdout[1])
            /\ stdout[1].error = "Usage: python predict.py <symbol>"
            /\ exit_code = 1

\* C1 witness: the script was run with two arguments and has exited.
C1_Witness == name = "__main__" /\ Len(argv) = 2 /\ pc = "exited" /\ exit_code = 1

\* C2: a command line with exactly one symbol runs to an exit with code 0 or
\* 1 and exactly one printed JSON line on every path, also when a step of
\* predict raises: code 0 iff the line is a success record (predict returned
\* true), code 1 iff it is an error record with error and timestamp (predict
\* returned false); predict always returns.
C2_OneLineAndExitCode ==
    (name = "__main__" /\ Len(argv) = 1) =>
        /\ pc # "exited" => ENABLED (Construct \/ MainPredict \/ MainExit)
        /\ pc \in {"start", "constructed"} => (stdout = <<>> /\ log = <<>>)
        /\ pc \in {"predicted", "exited"} =>
            /\ Len(stdout) = 1
            /\ Len(log) = 1
            /\ Last.ret \in BOOLEAN
            /\ Last.ret <=> IsSuccessRecord(stdout[1])
            /\ ~Last.ret <=> IsErrorRecord(stdout[1])
            /\ Last.ret <=> Last.fault = "none"
        /\ pc = "exited" =>
            /\ exit_code \in {0, 1}
            /\ exit_code = 0 <=> IsSuccessRecord(stdout[1])
            /\ exit_code = 1 <=> IsErrorRecord(stdout[1])
        /\ pc # "exited" => exit_code = -1

\* C2 witness: a step inside predict raised, one error line was printed and
\* the script exited with code 1.
C2_Witness ==
    /\ name = "__main__" /\ Len(argv) = 1 /\ pc = "exited"
    /\ Last.fault = "dumps" /\ exit_code = 1 /\ Len(stdout) = 1

\* The rows of df, from the 20th on, whose volume and whose predecessor's
\* volume are both zero: their volume_momentum is 0/0.
ZeroOverZeroRows(t) ==
    {i \in 20..Len(t) : t[i].volume = 0 /\ t[i - 1].volume = 0}

\* Every derived column of every row of the feature table is defined, and the
\* rows are rows of df in their input order.
DefinedAndOrdered(t, out) ==
    /\ \A k \in 1..Len(out) :
          /\ out[k].SMA_5.kind # "nan"
          /\ out[k].SMA_20.kind # "nan"
          /\ out[k].price_momentum.kind # "nan"
          /\ out[k].volume_momentum.kind # "nan"
          /\ out[k].volatility.kind # "nan"
          /\ out[k].ts \in 1..Len(t)
          /\ <<out[k].open, out[k].high, out[k].low, out[k].close, out[k].volume>>
               = <<t[out[k].ts].open, t[out[k].ts].high, t[out[k].ts].low,
                   t[out[k].ts].close, t[out[k].ts].volume>>
    /\ \A k \in 1..(Len(out) - 1) : out[k].ts < out[k + 1].ts

\* C3 as stated: for every raw table with N >= 20 rows prepare_features
\* returns exactly N - 19 rows, every derived column defined in each, in
\* input order.
C3_Original ==
    (pc = "prepared" /\ Len(df) >= 20) =>
        /\ Len(feat) = Len(df) - 19
        /\ DefinedAndOrdered(df, feat)

\* C3 amended: for every raw table with N >= 20 rows (positive prices)
\* prepare_features returns the rows from the 20th on except those whose
\* volume and whose predecessor's volume are both zero, so N - 19 rows less
\* the number of such rows (exactly N - 19 when there is none); every derived
\* column is defined (not NaN) in each, in input order.
C3_Amended ==
    (pc = "prepared" /\ Len(df) >= 20) =>
        /\ Len(feat) = (Len(df) - 19) - Cardinality(ZeroOverZeroRows(df))
        /\ {feat[k].ts : k \in 1..Len(feat)} = (20..Len(df)) \ ZeroOverZeroRows(df)
        /\ DefinedAndOrdered(df, feat)

\* C3 witness: a table of at least 21 rows without two zero volumes in a row
\* came back with N - 19 rows.
C3_Witness ==
    /\ pc = "prepared" /\ Len(df) >= 21
    /\ ZeroOverZeroRows(df) = {} /\ Len(feat) = Len(df) - 19

\* C4: for every raw table with fewer than 20 rows, the empty one included,
\* prepare_features returns an empty table and raises nothing.
C4_ShortTableEmpty ==
    (pc = "prepared" /\ Len(df) < 20) =>
        /\ feat = <<>>
        /\ Last.op = "prepare_features" /\ Last.err = "none"

\* C4 witness: a table of 19 rows was prepared.
C4_Witness == pc = "prepared" /\ Len(df) = 19 /\ Len(feat) = 0

\* C5: predict is decoupled from train: a call of predict issues no request,
\* leaves the model and the scaler as they are, and prints the record that
\* its sample and the clock alone determine, whatever the symbol and whether
\* or not train ran before; only train issues a request.
C5_PredictDecoupled ==
    [][/\ (Len(log') = Len(log) + 1 /\ log'[Len(log')].op = "predict") =>
            LET e == log'[Len(log')]
            IN /\ requests' = requests
               /\ model' = model
               /\ scaler' = scaler
               /\ Len(stdout') = Len(stdout) + 1
               /\ e.fault = "none" =>
                    /\ e.ret
                    /\ stdout'[Len(stdout')] =
                         [current_price |-> 10000,
                          predicted_price |-> 10000 + 100 * e.sample,
                          predicted_change_percent |-> 100 * e.sample,
                          confidence_score |-> 75,
                          timestamp |-> clock]
       /\ requests' # requests =>
            /\ Len(log') = Len(log) + 1
            /\ log'[Len(log')].op = "train"]_vars

\* C5 witness: predict succeeded on a predictor whose model train had fitted.
C5_Witness ==
    /\ Len(log) = 2
    /\ log[1].op = "train" /\ log[1].err = "none" /\ model.fitted
    /\ log[2].op = "predict" /\ log[2].ret /\ log[2].sample # 0

\* C6: when the response lacks the "Time Series (5min)" key, fetch fails with
\* the DataUnavailable error after exactly one request, train propagates it
\* and fits neither the scaler nor the model (both keep their state), and a
\* later predict still succeeds.
C6_MissingKey ==
    [][/\ (Len(log') = Len(log) + 1 /\ log'[Len(log')].op = "train"
           /\ ~log'[Len(log')].has_key) =>
            /\ log'[Len(log')].err = "Failed to fetch data from Alpha Vantage"
            /\ requests' = Append(requests, log'[Len(log')].symbol)
            /\ scaler' = scaler
            /\ model' = model
       /\ (/\ Len(log') = Len(log) + 1 /\ log'[Len(log')].op = "predict"
           /\ log'[Len(log')].fault = "none"
           /\ \E j \in 1..Len(log) : log[j].op = "train" /\ ~log[j].has_key) =>
            /\ log'[Len(log')].ret
            /\ IsSuccessRecord(stdout'[Len(stdout')])]_vars

\* C6 witness: train failed on a response without the key, after one
\* request, and the predict after it succeeded.
C6_Witness ==
    /\ Len(log) = 2
    /\ log[1].op = "train" /\ ~log[1].has_key /\ log[1].err = DataUnavailable
    /\ Len(requests) = 1
    /\ log[2].op = "predict" /\ log[2].ret

\* C7 as stated: whenever the feature table has 0, 1 or 2 surviving rows
\* (fewer than 2 training examples) train fails for want of data, and does
\* not complete a fit of the model.
C7_InsufficientData ==
    (/\ Len(log) > 0 /\ Last.op = "train"
     /\ Last.err \notin {DataUnavailable, LengthMismatch}
     /\ Len(feat) <= 2) =>
        /\ Last.err = NoSamples
        /\ model.fit_call # Len(log)

\* C8: every success record has current_price 100.0, confidence_score 0.75
\* and predicted_change_percent = (predicted_price - 100.0) / 100.0 * 100.
C8_ChangePercent ==
    \A k \in 1..Len(stdout) :
        IsSuccessRecord(stdout[k]) =>
            /\ stdout[k].current_price = 100 * Scale
            /\ stdout[k].confidence_score * 100 = 75 * Scale
            /\ stdout[k].predicted_change_percent * (100 * Scale)
                 = (stdout[k].predicted_price - 100 * Scale) * (100 * Scale)

\* C8 witness: a success record with a perturbed price was printed.
C8_Witness ==
    \E k \in 1..Len(stdout) :
        IsSuccessRecord(stdout[k]) /\ stdout[k].predicted_price > 100 * Scale

\* C9: for a feature table with K >= 1 surviving rows train builds exactly
\* K - 1 examples; the i-th input is the five base values of surviving row i
\* and the i-th label is the close of surviving row i + 1.
C9_TrainingExamples ==
    (Len(log) > 0 /\ Last.op = "train" /\ Len(feat) >= 1) =>
        /\ Len(X) = Len(feat) - 1
        /\ Len(y) = Len(feat) - 1
        /\ \A i \in 1..(Len(feat) - 1) :
              /\ X[i] = <<feat[i].open, feat[i].high, feat[i].low,
                          feat[i].close, feat[i].volume>>
              /\ y[i] = feat[i + 1].close

\* C9 witness: train built two examples from three surviving rows.
C9_Witness ==
    /\ Len(log) > 0 /\ Last.op = "train"
    /\ Len(feat) = 3 /\ Len(X) = 2 /\ Len(y) = 2

\* C10 as stated: in every reachable state a fitted model was fitted on
\* features transformed by the scaler parameters the predictor retains: the
\* scaler and the model come from the same train call.
C10_ScalerModelConsistent ==
    model.fitted => (scaler.fitted /\ scaler.fit_call = model.scaler_call)

====
